---- MODULE Spec2Model ----
(***************************************************************************)
(* Causal profiling (src/cmd/causalprof/causalprof.go): the online         *)
(* experiment engine (Start, Stop, profileWriter, selectExperiment, the    *)
(* progress tracker) and the offline aggregator (main, readProfFile,       *)
(* sample.merge).                                                          *)
(*                                                                         *)
(* The module holds several specifications over one set of variables:      *)
(*   SpecSel    selectExperiment on one experiment                         *)
(*   SpecPace   the window-multiplier feedback rule of profileWriter       *)
(*   SpecMerge  sample.merge on two samples                                *)
(*   SpecAgg    main of the aggregator on one profile file                 *)
(*   Spec       Start / Stop / profileWriter / StartProgress /             *)
(*              Progress.Stop running concurrently                         *)
(*   FairSpec   Spec with the scheduler's fairness                         *)
(* A specification leaves the variables of the others at their initial     *)
(* values.                                                                 *)
(***************************************************************************)
EXTENDS Integers, Sequences, FiniteSets, TLC

\* ---------------------------------------------------------------- constants
\* const block of causalprof.go
profilingHz == 1000
profilingPeriod == 1000000
delayPerPercent == 10000
percentileResolution == 10
progressPerExperiment == 100
maxTrialsPerExperiment == 5
\* profMultiple := time.Duration(200)
initialProfMultiple == 200

\* ------------------------------------------------------------------- bounds
\* the sampler hands out up to MaxCandidates candidate locations
MaxCandidates == 3
\* the application tasks begin up to MaxIntervals progress intervals
MaxIntervals == 2
\* Start succeeds up to MaxStarts times
MaxStarts == 2
\* rand.Perm is drawn from the rotations of the identity by 0..MaxShift
MaxShift == 1
\* largest interval count fed to the pacing rule
MaxCnt == 250
\* the pacing rule is no longer applied once the multiplier exceeds this
MaxMultiple == 1600
\* largest merged count of a sample handed to merge
MaxMerged == 3
\* a profile file has up to MaxLines lines of any kind, or
MaxLines == 3
\* a run of five delay levels of one callsite and up to MaxExtra more lines
MaxExtra == 2

VARIABLES
    \* selectExperiment
    expinfo,     \* the experiment: [trials, hasNull, remaining]
    lastRet,     \* <<v>>: the value the last selectExperiment call returned
    cycle,       \* the values returned since the last refresh of remaining
    ended,       \* the values returned in the last completed permutation cycle
    \* pacing
    profMultiple, \* the window multiplier
    lastCnt,      \* <<cnt>>: the interval count of the last pacing step
    \* merge
    s, o,        \* the receiver and the argument of merge
    mergePc,     \* "call" | "done" | "panic"
    \* the aggregator (package main)
    file,        \* the lines of the profile file
    aggPc,       \* where main is: "off" | "read" | "index" | "sort" | "merge" |
                 \* "symbols" | "report" | "done" | "fatal"
    samples,     \* what readProfFile returned
    err,         \* the error main died of, "nil" when none
    index,       \* index: pc -> the samples of the callsite
    output,      \* the lines printed on standard output
    \* the profiler
    cpu,           \* [profiling, done]: cpu.profiling, and cpu.done ("nil" | "chan")
    stopPc,        \* the Stop call holding cpu's mutex: "idle" (none) | "stopprof" | "send"
    ret,           \* what the last Start, Stop or Progress.Stop call to return returned
    rt,            \* the runtime: [sampling, delay, cpuprof]
    coord,         \* the profileWriter goroutines, by slot
    progress, progresstime, experimentNum,
    commits,       \* the value of experimentNum at each addition to progress
    task,          \* the application tasks: [pc, p], p the task's Progress
    out,           \* the records written to w
    env            \* what the environment may still do: [candidates, intervals, starts]

selVars == <<expinfo, lastRet, cycle, ended>>
paceVars == <<profMultiple, lastCnt>>
aggVars == <<file, aggPc, samples, err, index, output>>
mergeVars == <<s, o, mergePc, aggVars>>
progVars == <<progress, progresstime, experimentNum, commits>>
profVars == <<cpu, stopPc, ret, rt, coord, progVars, task, out, env>>
vars == <<selVars, paceVars, mergeVars, profVars>>

\* Go's integer division truncates toward zero
GoDiv(a, b) ==
    IF (a >= 0) = (b > 0) THEN a \div b ELSE -((-a) \div b)

Range(q) == {q[i] : i \in 1..Len(q)}

\* the aggregator's variables while main is not modelled
AggIdle ==
    /\ file = <<>>
    /\ aggPc = "off"
    /\ samples = <<>>
    /\ err = "nil"
    /\ index = <<>>
    /\ output = <<>>

\* ---------------------------------------------------------- selectExperiment
\* new(experiment)
NewExperiment == [trials |-> 0, hasNull |-> FALSE, remaining |-> <<>>]

\* rand.Perm(n): a permutation of 0..n-1
Perm(n) ==
    {[i \in 1..n |-> (i - 1 + k) % n] : k \in 0..MaxShift}

\* rand.Intn(2), evaluated only when !hasNull and remaining is non-empty
\* (|| short-circuits)
Intn2(e) ==
    IF ~e.hasNull /\ Len(e.remaining) # 0 THEN {0, 1} ELSE {0}

\* lines 313-319: the null trial, or the head of remaining
SelectTrial(e) ==
    {IF ~e.hasNull /\ (Len(e.remaining) = 0 \/ c = 1)
       THEN [ret |-> 0, info |-> [e EXCEPT !.hasNull = TRUE]]
       ELSE [ret |-> Head(e.remaining) + 1,
             info |-> [e EXCEPT !.remaining = Tail(@)]]
     : c \in Intn2(e)}

\* Refresh drawing one level too few
RefreshShort(e) ==
    {[e EXCEPT !.trials = @ + 1, !.remaining = p]
     : p \in Perm((100 \div percentileResolution) - 1)}

\* lines 306-312: the refresh of remaining
Refresh(e) ==
    {[e EXCEPT !.trials = @ + 1, !.remaining = p]
     : p \in Perm(100 \div percentileResolution)}

\* selectExperiment comparing trials against the wrong limit
SelectExperimentLate(e) ==
    IF e.hasNull /\ Len(e.remaining) = 0
      THEN IF e.trials = maxTrialsPerExperiment + 1
             THEN {[ret |-> -1, info |-> e]}
             ELSE UNION {SelectTrial(r) : r \in Refresh(e)}
      ELSE SelectTrial(e)

\* selectExperiment(expinfo): the possible [ret, info] outcomes
SelectExperiment(e) ==
    IF e.hasNull /\ Len(e.remaining) = 0
      THEN IF e.trials = maxTrialsPerExperiment
             THEN {[ret |-> -1, info |-> e]}
             ELSE UNION {SelectTrial(r) : r \in Refresh(e)}
      ELSE SelectTrial(e)

SelInit ==
    /\ expinfo = NewExperiment
    /\ lastRet = <<>>
    /\ cycle = <<>>
    /\ ended = <<>>

\* one call of selectExperiment on the experiment; cycle and ended record what
\* the calls returned: a refresh (trials changes) or the first stop sentinel
\* closes the running cycle
SelCall ==
    /\ \E r \in SelectExperiment(expinfo) :
        /\ expinfo' = r.info
        /\ lastRet' = <<r.ret>>
        /\ IF r.info.trials # expinfo.trials
             THEN /\ cycle' = <<r.ret>>
                  /\ ended' = IF expinfo.trials >= 1 THEN cycle ELSE ended
             ELSE IF r.ret = -1
                    THEN /\ cycle' = <<>>
                         /\ ended' = IF cycle # <<>> THEN cycle ELSE ended
                    ELSE /\ cycle' = Append(cycle, r.ret)
                         /\ ended' = ended
    /\ UNCHANGED <<paceVars, mergeVars, profVars>>

\* ------------------------------------------------------------------- pacing
\* lines 291-300: the feedback rule applied after a record is written
Pace(m, cnt) ==
    IF progressPerExperiment > cnt
      THEN IF progressPerExperiment > 2 * cnt THEN m * 2 ELSE m
      ELSE IF progressPerExperiment < GoDiv(cnt, 2) THEN GoDiv(m, 2) ELSE m

PaceInit ==
    /\ profMultiple = initialProfMultiple
    /\ lastCnt = <<>>

PaceStep ==
    /\ profMultiple <= MaxMultiple
    /\ \E cnt \in 1..MaxCnt :
        /\ profMultiple' = Pace(profMultiple, cnt)
        /\ lastCnt' = <<cnt>>
    /\ UNCHANGED <<selVars, mergeVars, profVars>>

\* -------------------------------------------------------------------- merge
\* merge taking the plain mean of the two nsPerOp
MergedUnweighted(a, b) ==
    [a EXCEPT
       !.nsPerOp = GoDiv(a.nsPerOp + b.nsPerOp, 2),
       !.merged = a.merged + b.merged,
       !.delaysamples = a.delaysamples + b.delaysamples,
       !.allsamples = a.allsamples + b.allsamples]

\* the fields merge assigns to s
Merged(a, b) ==
    [a EXCEPT
       !.nsPerOp = GoDiv((a.nsPerOp * a.merged) + (b.nsPerOp * b.merged),
                         a.merged + b.merged),
       !.merged = a.merged + b.merged,
       !.delaysamples = a.delaysamples + b.delaysamples,
       !.allsamples = a.allsamples + b.allsamples]

Samples ==
    [pc : {16}, speedup : {0, 30}, merged : 1..MaxMerged,
     nsPerOp : {-7, 70, 100, 300}, delaysamples : {0, 300},
     allsamples : {1000}]

MergeInit ==
    /\ s \in Samples
    /\ o \in Samples
    /\ mergePc = "call"
    /\ AggIdle

\* s.merge(o)
Merge ==
    /\ mergePc = "call"
    /\ IF s.pc # o.pc \/ s.speedup # o.speedup
         THEN /\ mergePc' = "panic"
              /\ UNCHANGED <<s, o>>
         ELSE /\ s' = Merged(s, o)
              /\ mergePc' = "done"
              /\ UNCHANGED o
    /\ UNCHANGED aggVars
    /\ UNCHANGED <<selVars, paceVars, profVars>>

\* --------------------------------------------------------------- aggregator
\* A field of a line, as strings.Fields cuts it: a decimal numeral or a 0x
\* numeral of value val, with or without a minus sign, or a word that is no
\* numeral
Dec(n) == [form |-> "dec", neg |-> FALSE, val |-> n]
Hex(n) == [form |-> "hex", neg |-> FALSE, val |-> n]
Word == [form |-> "word", neg |-> FALSE, val |-> 0]
Minus(f) == [f EXCEPT !.neg = TRUE]

\* strconv.ParseUint(f, 0, 64): base 0 takes the base from the prefix; a sign
\* is a syntax error
ParseUint(f) ==
    IF f.form \in {"dec", "hex"} /\ ~f.neg
      THEN [ok |-> TRUE, v |-> f.val]
      ELSE [ok |-> FALSE, v |-> 0]

\* strconv.ParseInt(f, 10, 64): decimal digits after an optional sign
ParseInt(f) ==
    IF f.form = "dec"
      THEN [ok |-> TRUE, v |-> IF f.neg THEN -f.val ELSE f.val]
      ELSE [ok |-> FALSE, v |-> 0]

\* strconv.Atoi(f)
Atoi(f) == ParseInt(f)

\* A line as scan.Text() returns it: kind "empty" for len(s) < 1, "comment"
\* for s[0] == '#', "text" for any other; fields is strings.Fields(s)
EmptyLine == [kind |-> "empty", fields |-> <<>>]
CommentLine == [kind |-> "comment", fields |-> <<Word, Word>>]
RecordLine(pc, speedup, ns, delay, all) ==
    [kind |-> "text",
     fields |-> <<Hex(pc), Dec(speedup), Dec(ns), Dec(delay), Dec(all)>>]
\* four fields
ShortLine == [kind |-> "text", fields |-> <<Hex(16), Dec(0), Dec(100), Dec(0)>>]
\* five fields, nsPerOp written as 0x64
HexNsLine ==
    [kind |-> "text",
     fields |-> <<Hex(16), Dec(0), Hex(100), Dec(0), Dec(1000)>>]
\* five fields, the address written with a minus sign
MinusPcLine ==
    [kind |-> "text",
     fields |-> <<Minus(Dec(16)), Dec(0), Dec(100), Dec(0), Dec(1000)>>]

\* lines 124-158, one line: the sample it adds, or the error
ParseLine(l) ==
    IF Len(l.fields) # 5
      THEN [err |-> "corrupt", sample |-> <<>>]
      ELSE LET pc == ParseUint(l.fields[1])
               speedup == Atoi(l.fields[2])
               nsPerOp == ParseInt(l.fields[3])
               delaysamples == ParseInt(l.fields[4])
               allsamples == ParseInt(l.fields[5])
           IN IF pc.ok /\ speedup.ok /\ nsPerOp.ok /\ delaysamples.ok /\ allsamples.ok
                THEN [err |-> "nil",
                      sample |-> [pc |-> pc.v, speedup |-> speedup.v, merged |-> 1,
                                  nsPerOp |-> nsPerOp.v,
                                  delaysamples |-> delaysamples.v,
                                  allsamples |-> allsamples.v]]
                ELSE [err |-> "syntax", sample |-> <<>>]

\* the loop of readProfFile that passes over malformed lines
RECURSIVE ScanLinesSkipping(_, _)
ScanLinesSkipping(lines, acc) ==
    IF lines = <<>>
      THEN [samples |-> acc, err |-> "nil"]
      ELSE LET l == Head(lines)
           IN IF l.kind \in {"empty", "comment"} \/ ParseLine(l).err # "nil"
                THEN ScanLinesSkipping(Tail(lines), acc)
                ELSE ScanLinesSkipping(Tail(lines), Append(acc, ParseLine(l).sample))

\* lines 120-160: the loop of readProfFile over the lines left, acc the
\* samples so far; an error returns nil samples
RECURSIVE ScanLines(_, _)
ScanLines(lines, acc) ==
    IF lines = <<>>
      THEN [samples |-> acc, err |-> "nil"]
      ELSE LET l == Head(lines)
           IN IF l.kind \in {"empty", "comment"}
                THEN ScanLines(Tail(lines), acc)
                ELSE IF ParseLine(l).err # "nil"
                  THEN [samples |-> <<>>, err |-> ParseLine(l).err]
                  ELSE ScanLines(Tail(lines), Append(acc, ParseLine(l).sample))

\* readProfFile(path) on a file that opens
ReadProfFileOf(lines) == ScanLines(lines, <<>>)

\* lines 29-34: index[pc], the samples of pc in the order of the file
IndexOf(ss) ==
    [pc \in {ss[k].pc : k \in 1..Len(ss)} |->
       SelectSeq(ss, LAMBDA x : x.pc = pc)]

\* bySpeedup.Less
Less(a, b) == a.speedup < b.speedup

IsSorted(q) == \A k \in 1..(Len(q) - 1) : ~Less(q[k + 1], q[k])

\* x put into q at any place
InsertAny(x, q) ==
    {SubSeq(q, 1, k) \o <<x>> \o SubSeq(q, k + 1, Len(q)) : k \in 0..Len(q)}

\* sort.Sort(bySpeedup(q)): q in ascending order of speedup; sort.Sort is not
\* stable, so equal speedups come out in any order
RECURSIVE SortedBySpeedup(_)
SortedBySpeedup(q) ==
    IF q = <<>>
      THEN {<<>>}
      ELSE {r \in UNION {InsertAny(Head(q), r0) : r0 \in SortedBySpeedup(Tail(q))} :
              IsSorted(r)}

\* lines 41-49: the loop over i[1:], acc being merged
RECURSIVE MergeRun(_, _)
MergeRun(q, acc) ==
    IF q = <<>>
      THEN acc
      ELSE LET last == acc[Len(acc)]
           IN IF last.speedup = Head(q).speedup
                THEN MergeRun(Tail(q), [acc EXCEPT ![Len(acc)] = Merged(last, Head(q))])
                ELSE MergeRun(Tail(q), Append(acc, Head(q)))

\* lines 41-50 for one callsite
MergeDuplicates(i) == MergeRun(Tail(i), <<Head(i)>>)

\* a float64, kept as the quotient it is computed from
Ratio(n, d) == [num |-> n, den |-> d]

\* the lines Printf writes: lines 70-72, 75, 80, 82 and 85; sym tells whether
\* PCToLine found the function
HeaderLine(pc, sym) ==
    [kind |-> "header", pc |-> pc, sym |-> sym, speedup |-> 0, nsPerOp |-> 0,
     percent |-> Ratio(0, 1), percentsamples |-> Ratio(0, 1)]
BaselineLine(nullexp) ==
    [kind |-> "baseline", pc |-> 0, sym |-> FALSE, speedup |-> nullexp.speedup,
     nsPerOp |-> nullexp.nsPerOp,
     percent |-> Ratio(0, 1), percentsamples |-> Ratio(0, 1)]
TrialLine(nullexp, x) ==
    [kind |-> "trial", pc |-> 0, sym |-> FALSE, speedup |-> x.speedup,
     nsPerOp |-> x.nsPerOp,
     percent |-> Ratio((x.nsPerOp - nullexp.nsPerOp) * 100, nullexp.nsPerOp),
     percentsamples |-> Ratio(x.speedup * x.delaysamples, x.allsamples)]
BlankLine ==
    [kind |-> "blank", pc |-> 0, sym |-> FALSE, speedup |-> 0, nsPerOp |-> 0,
     percent |-> Ratio(0, 1), percentsamples |-> Ratio(0, 1)]
NoDataLine ==
    [kind |-> "nodata", pc |-> 0, sym |-> FALSE, speedup |-> 0, nsPerOp |-> 0,
     percent |-> Ratio(0, 1), percentsamples |-> Ratio(0, 1)]

\* the test of line 64 without its look at the baseline
SkippedShort(i) == Len(i) < 5

\* line 64: the callsites the report passes over
Skipped(i) == i[1].speedup # 0 \/ Len(i) < 5

\* lines 62-83, one callsite
Block(pc, i, sym) ==
    IF Skipped(i)
      THEN <<>>
      ELSE <<HeaderLine(pc, sym), BaselineLine(i[1])>>
           \o [k \in 1..(Len(i) - 1) |-> TrialLine(i[1], i[k + 1])]
           \o <<BlankLine>>

\* the orders a range over a map with keys S can take
Orders(S) ==
    {q \in [1..Cardinality(S) -> S] : \A a, b \in DOMAIN q : q[a] = q[b] => a = b}

RECURSIVE Blocks(_, _, _)
Blocks(order, idx, sym) ==
    IF order = <<>>
      THEN <<>>
      ELSE Block(Head(order), idx[Head(order)], sym[Head(order)])
           \o Blocks(Tail(order), idx, sym)

\* lines 61-86: what main prints, the callsites ranged over in order
ReportOf(order, idx, sym) ==
    IF \A k \in 1..Len(order) : Skipped(idx[order[k]])
      THEN <<NoDataLine>>
      ELSE Blocks(order, idx, sym)

\* the lines files are made of
BaseLines ==
    {RecordLine(16, 0, 100, 0, 1000), RecordLine(16, 0, 101, 0, 1000),
     RecordLine(16, 0, 102, 0, 1000)}
Lines ==
    BaseLines \cup
    {RecordLine(16, 30, 70, 300, 1000),
     EmptyLine, CommentLine, ShortLine, HexNsLine, MinusPcLine}
ExtraLines == Lines \cup {RecordLine(32, 0, 50, 0, 1000)}

\* five delay levels of callsite 16, out of order; with and without a baseline
FiveLevels ==
    <<RecordLine(16, 40, 80, 400, 1000), RecordLine(16, 10, 95, 100, 1000),
      RecordLine(16, 0, 100, 0, 1000), RecordLine(16, 30, 70, 300, 1000),
      RecordLine(16, 20, 90, 200, 1000)>>
FiveLevelsNoBaseline ==
    <<RecordLine(16, 40, 80, 400, 1000), RecordLine(16, 10, 95, 100, 1000),
      RecordLine(16, 50, 60, 500, 1000), RecordLine(16, 30, 70, 300, 1000),
      RecordLine(16, 20, 90, 200, 1000)>>

SeqsUpTo(S, n) == UNION {[1..k -> S] : k \in 0..n}

\* the profile files main is run on
Files ==
    SeqsUpTo(Lines, MaxLines) \cup
    {pre \o f : pre \in {FiveLevels, FiveLevelsNoBaseline},
                f \in SeqsUpTo(ExtraLines, MaxExtra)}

\* main is started on a file
AggInit ==
    /\ file \in Files
    /\ aggPc = "read"
    /\ samples = <<>>
    /\ err = "nil"
    /\ index = <<>>
    /\ output = <<>>

\* lines 23-26: readProfFile; os.Open fails or the file is read, and an error
\* ends main
ReadProfFile ==
    /\ aggPc = "read"
    /\ \E opens \in BOOLEAN :
         LET r == IF opens THEN ReadProfFileOf(file)
                           ELSE [samples |-> <<>>, err |-> "open"]
         IN /\ samples' = r.samples
            /\ err' = r.err
            /\ aggPc' = IF r.err = "nil" THEN "index" ELSE "fatal"
    /\ UNCHANGED <<file, index, output>>
    /\ UNCHANGED <<s, o, mergePc>>
    /\ UNCHANGED <<selVars, paceVars, profVars>>

\* lines 28-34
BuildIndex ==
    /\ aggPc = "index"
    /\ index' = IndexOf(samples)
    /\ aggPc' = "sort"
    /\ UNCHANGED <<file, samples, err, output>>
    /\ UNCHANGED <<s, o, mergePc>>
    /\ UNCHANGED <<selVars, paceVars, profVars>>

\* lines 35-38
SortIndex ==
    /\ aggPc = "sort"
    /\ \E f \in [DOMAIN index ->
                   UNION {SortedBySpeedup(index[pc]) : pc \in DOMAIN index}] :
         /\ \A pc \in DOMAIN index : f[pc] \in SortedBySpeedup(index[pc])
         /\ index' = f
    /\ aggPc' = "merge"
    /\ UNCHANGED <<file, samples, err, output>>
    /\ UNCHANGED <<s, o, mergePc>>
    /\ UNCHANGED <<selVars, paceVars, profVars>>

\* lines 39-51
MergeIndex ==
    /\ aggPc = "merge"
    /\ index' = [pc \in DOMAIN index |-> MergeDuplicates(index[pc])]
    /\ aggPc' = "symbols"
    /\ UNCHANGED <<file, samples, err, output>>
    /\ UNCHANGED <<s, o, mergePc>>
    /\ UNCHANGED <<selVars, paceVars, profVars>>

\* lines 52-60: objfile.Open and PCLineTable, either of which may fail
OpenSymbols ==
    /\ aggPc = "symbols"
    /\ \E ok \in BOOLEAN :
         /\ aggPc' = IF ok THEN "report" ELSE "fatal"
         /\ err' = IF ok THEN err ELSE "symbols"
    /\ UNCHANGED <<file, samples, index, output>>
    /\ UNCHANGED <<s, o, mergePc>>
    /\ UNCHANGED <<selVars, paceVars, profVars>>

\* lines 61-87
Report ==
    /\ aggPc = "report"
    /\ \E order \in Orders(DOMAIN index) : \E sym \in [DOMAIN index -> BOOLEAN] :
         output' = ReportOf(order, index, sym)
    /\ aggPc' = "done"
    /\ UNCHANGED <<file, samples, err, index>>
    /\ UNCHANGED <<s, o, mergePc>>
    /\ UNCHANGED <<selVars, paceVars, profVars>>

AggNext ==
    \/ ReadProfFile
    \/ BuildIndex
    \/ SortIndex
    \/ MergeIndex
    \/ OpenSymbols
    \/ Report

\* ----------------------------------------------------------------- profiler
\* the sampled locations
PCs == {16}
\* the profileWriter goroutines that can be alive at once
Coords == {1, 2}
\* the application tasks
Tasks == {1, 2}
\* time.Since(p.startTime) less the delay injected meanwhile, as Progress.Stop
\* computes it from the clock and from runtime_causalProfileGetDelay
NetTimes == {-1, 4}
\* what runtime_causalProfileSampleStats returns
SampleStats == {[samples |-> 1, allsamples |-> 2]}

\* the number of selectExperiment calls that hand out every cycle of an
\* experiment and then meet the stop sentinel
RetireCalls == 2 + maxTrialsPerExperiment * (100 \div percentileResolution)

\* the environments the model runs in: several trials over a restart, many
\* restarts, several progress intervals in one trial, and a run long enough to
\* retire a location
Environments ==
    {[candidates |-> MaxCandidates, intervals |-> 1, starts |-> 2],
     [candidates |-> 1, intervals |-> 1, starts |-> MaxStarts],
     [candidates |-> 1, intervals |-> MaxIntervals, starts |-> 1],
     [candidates |-> RetireCalls, intervals |-> 0, starts |-> 1]}

\* Progress{}
ZeroProgress == [startTime |-> 0, startDelay |-> 0, experimentNum |-> 0]

\* no goroutine in the slot
NoCoord ==
    [pc |-> "none", experiments |-> <<>>, profMultiple |-> 0, loc |-> 0,
     exp |-> 0, diff |-> 0, cnt |-> 0, gen |-> 0]

\* lines 250-251: a profileWriter goroutine at its first statement
NewCoord ==
    [NoCoord EXCEPT !.pc = "start", !.profMultiple = initialProfMultiple]

\* line 268
DelayPerSample(exp) == exp * (percentileResolution * delayPerPercent)

ProfIdle ==
    /\ cpu = [profiling |-> 0, done |-> "nil"]
    /\ stopPc = "idle"
    /\ ret = "none"
    /\ coord = [c \in Coords |-> NoCoord]
    /\ progress = 0
    /\ progresstime = 0
    /\ experimentNum = 0
    /\ commits = <<>>
    /\ task = [t \in Tasks |-> [pc |-> "idle", p |-> ZeroProgress]]
    /\ out = <<>>

ProfInit ==
    /\ ProfIdle
    /\ rt \in [sampling : {FALSE}, delay : {0}, cpuprof : BOOLEAN]
    /\ env \in Environments

\* the free slot a new goroutine takes
FreeSlot == CHOOSE c \in Coords : coord[c].pc = "none" /\ \A d \in Coords : coord[d].pc = "none" => c <= d

\* Start that does not look at cpu.profiling
StartUnchecked ==
    /\ stopPc = "idle"
    /\ IF rt.cpuprof
         THEN /\ cpu' = [cpu EXCEPT !.done = "chan"]
              /\ ret' = "Start: cpu profiling already in use"
              /\ UNCHANGED <<rt, coord, env>>
         ELSE /\ env.starts > 0
              /\ \E c \in Coords : coord[c].pc = "none"
              /\ cpu' = [profiling |-> 1, done |-> "chan"]
              /\ rt' = [rt EXCEPT !.sampling = TRUE]
              /\ coord' = [coord EXCEPT ![FreeSlot] = NewCoord]
              /\ env' = [env EXCEPT !.starts = @ - 1]
              /\ ret' = "Start: nil"
    /\ UNCHANGED <<stopPc, progVars, task, out>>
    /\ UNCHANGED <<selVars, paceVars, mergeVars>>

\* Start(w), under cpu's mutex
Start ==
    /\ stopPc = "idle"
    /\ IF cpu.profiling # 0
         THEN /\ cpu' = [cpu EXCEPT !.done = "chan"]
              /\ ret' = "Start: causal profiling already in use"
              /\ UNCHANGED <<rt, coord, env>>
         ELSE IF rt.cpuprof
           THEN /\ cpu' = [cpu EXCEPT !.done = "chan"]
                /\ ret' = "Start: cpu profiling already in use"
                /\ UNCHANGED <<rt, coord, env>>
           ELSE /\ env.starts > 0
                /\ \E c \in Coords : coord[c].pc = "none"
                /\ cpu' = [profiling |-> 1, done |-> "chan"]
                /\ rt' = [rt EXCEPT !.sampling = TRUE]
                /\ coord' = [coord EXCEPT ![FreeSlot] = NewCoord]
                /\ env' = [env EXCEPT !.starts = @ - 1]
                /\ ret' = "Start: nil"
    /\ UNCHANGED <<stopPc, progVars, task, out>>
    /\ UNCHANGED <<selVars, paceVars, mergeVars>>

\* Stop that does not look at cpu.profiling
StopUnchecked ==
    /\ stopPc = "idle"
    /\ cpu' = [cpu EXCEPT !.profiling = 0]
    /\ stopPc' = "stopprof"
    /\ UNCHANGED <<ret, rt, coord, progVars, task, out, env>>
    /\ UNCHANGED <<selVars, paceVars, mergeVars>>

\* Stop(), lines 231-237: takes cpu's mutex and returns at once when profiling
\* is off, or clears cpu.profiling and keeps the mutex
Stop ==
    /\ stopPc = "idle"
    /\ IF cpu.profiling = 0
         THEN /\ ret' = "Stop: not profiling"
              /\ UNCHANGED <<cpu, stopPc>>
         ELSE /\ cpu' = [cpu EXCEPT !.profiling = 0]
              /\ stopPc' = "stopprof"
              /\ UNCHANGED ret
    /\ UNCHANGED <<rt, coord, progVars, task, out, env>>
    /\ UNCHANGED <<selVars, paceVars, mergeVars>>

\* Stop(), line 239: runtime_causalProfileStopProf()
StopProf ==
    /\ stopPc = "stopprof"
    /\ rt' = [rt EXCEPT !.sampling = FALSE]
    /\ stopPc' = "send"
    /\ UNCHANGED <<cpu, ret, coord, progVars, task, out, env>>
    /\ UNCHANGED <<selVars, paceVars, mergeVars>>

\* Stop(), line 240, cpu.done <- true, meeting profileWriter's <-cpu.done of
\* line 255 (then break: the goroutine ends) or of line 274; Stop returns
StopSend(c) ==
    /\ stopPc = "send"
    /\ cpu.done = "chan"
    /\ coord[c].pc \in {"waitdone", "window"}
    /\ coord' = [coord EXCEPT ![c] =
                   IF @.pc = "waitdone" THEN NoCoord ELSE [@ EXCEPT !.pc = "abort"]]
    /\ stopPc' = "idle"
    /\ ret' = "Stop: stopped"
    /\ UNCHANGED <<cpu, rt, progVars, task, out, env>>
    /\ UNCHANGED <<selVars, paceVars, mergeVars>>

\* experiments[pc], a new experiment when the map has none
Lookup(experiments, pc) ==
    IF pc \in DOMAIN experiments THEN experiments[pc] ELSE NewExperiment

\* experiments with experiments[pc] = e
Store(experiments, pc, e) ==
    [k \in (DOMAIN experiments) \cup {pc} |-> IF k = pc THEN e ELSE experiments[k]]

\* profileWriter leaving its loop on pc == 0 without the receive of line 255
CoordStoppedNoReceive(c) ==
    /\ coord[c].pc = "start"
    /\ ~rt.sampling
    /\ coord' = [coord EXCEPT ![c] = NoCoord]
    /\ UNCHANGED <<cpu, stopPc, ret, rt, progVars, task, out, env>>
    /\ UNCHANGED <<selVars, paceVars, mergeVars>>

\* lines 253-257: runtime_causalProfileStart() returns 0, which it does once
\* sampling is stopped
CoordStopped(c) ==
    /\ coord[c].pc = "start"
    /\ ~rt.sampling
    /\ coord' = [coord EXCEPT ![c].pc = "waitdone"]
    /\ UNCHANGED <<cpu, stopPc, ret, rt, progVars, task, out, env>>
    /\ UNCHANGED <<selVars, paceVars, mergeVars>>

\* lines 253-268: runtime_causalProfileStart() returns a location, and
\* selectExperiment picks the trial
CoordSelect(c) ==
    /\ coord[c].pc = "start"
    /\ rt.sampling
    /\ env.candidates > 0
    /\ env' = [env EXCEPT !.candidates = @ - 1]
    /\ \E pc \in PCs : \E r \in SelectExperiment(Lookup(coord[c].experiments, pc)) :
        coord' = [coord EXCEPT ![c] =
                    [@ EXCEPT !.experiments = Store(@, pc, r.info),
                              !.loc = pc,
                              !.exp = r.ret,
                              !.pc = IF r.ret = -1 THEN "retire" ELSE "reset"]]
    /\ UNCHANGED <<cpu, stopPc, ret, rt, progVars, task, out>>
    /\ UNCHANGED <<selVars, paceVars, mergeVars>>

\* lines 264-267: the stop sentinel
CoordRetire(c) ==
    /\ coord[c].pc = "retire"
    /\ rt' = [rt EXCEPT !.delay = 0]
    /\ coord' = [coord EXCEPT ![c] = [@ EXCEPT !.pc = "start", !.loc = 0, !.exp = 0]]
    /\ UNCHANGED <<cpu, stopPc, ret, progVars, task, out, env>>
    /\ UNCHANGED <<selVars, paceVars, mergeVars>>

\* resetProgress(), line 270; gen keeps the generation it opens
ResetProgress(c) ==
    /\ coord[c].pc = "reset"
    /\ progress' = 0
    /\ progresstime' = 0
    /\ experimentNum' = experimentNum + 1
    /\ coord' = [coord EXCEPT ![c] =
                   [@ EXCEPT !.pc = "install", !.gen = experimentNum + 1]]
    /\ UNCHANGED commits
    /\ UNCHANGED <<cpu, stopPc, ret, rt, task, out, env>>
    /\ UNCHANGED <<selVars, paceVars, mergeVars>>

\* line 271
CoordInstall(c) ==
    /\ coord[c].pc = "install"
    /\ rt' = [rt EXCEPT !.delay = DelayPerSample(coord[c].exp)]
    /\ coord' = [coord EXCEPT ![c].pc = "window"]
    /\ UNCHANGED <<cpu, stopPc, ret, progVars, task, out, env>>
    /\ UNCHANGED <<selVars, paceVars, mergeVars>>

\* line 273: the timer of the select fires
WindowTimer(c) ==
    /\ coord[c].pc = "window"
    /\ coord' = [coord EXCEPT ![c].pc = "uninstall"]
    /\ UNCHANGED <<cpu, stopPc, ret, rt, progVars, task, out, env>>
    /\ UNCHANGED <<selVars, paceVars, mergeVars>>

\* lines 275-276, after <-cpu.done in the select: the goroutine ends
CoordAbort(c) ==
    /\ coord[c].pc = "abort"
    /\ rt' = [rt EXCEPT !.delay = 0]
    /\ coord' = [coord EXCEPT ![c] = NoCoord]
    /\ UNCHANGED <<cpu, stopPc, ret, progVars, task, out, env>>
    /\ UNCHANGED <<selVars, paceVars, mergeVars>>

\* line 278
CoordUninstall(c) ==
    /\ coord[c].pc = "uninstall"
    /\ rt' = [rt EXCEPT !.delay = 0]
    /\ coord' = [coord EXCEPT ![c].pc = "compare"]
    /\ UNCHANGED <<cpu, stopPc, ret, progVars, task, out, env>>
    /\ UNCHANGED <<selVars, paceVars, mergeVars>>

\* compareprogress without the test of progress == 0
CompareProgressNoCheck(c) ==
    /\ coord[c].pc = "compare"
    /\ progress' = 0
    /\ progresstime' = 0
    /\ experimentNum' = experimentNum + 1
    /\ coord' = [coord EXCEPT ![c] =
                  [@ EXCEPT !.pc = "record",
                            !.diff = IF progress = 0 THEN 0
                                     ELSE GoDiv(progresstime, progress),
                            !.cnt = progress]]
    /\ UNCHANGED commits
    /\ UNCHANGED <<cpu, stopPc, ret, rt, task, out, env>>
    /\ UNCHANGED <<selVars, paceVars, mergeVars>>

\* compareprogress that leaves the generation open
CompareProgressNoBump(c) ==
    /\ coord[c].pc = "compare"
    /\ IF progress = 0
         THEN /\ coord' = [coord EXCEPT ![c] =
                            [@ EXCEPT !.pc = "start", !.loc = 0, !.exp = 0,
                                      !.gen = 0]]
              /\ UNCHANGED progVars
         ELSE /\ coord' = [coord EXCEPT ![c] =
                            [@ EXCEPT !.pc = "record",
                                      !.diff = GoDiv(progresstime, progress),
                                      !.cnt = progress]]
              /\ UNCHANGED progVars
    /\ UNCHANGED <<cpu, stopPc, ret, rt, task, out, env>>
    /\ UNCHANGED <<selVars, paceVars, mergeVars>>

\* compareprogress followed by the pacing rule and the cool-down even when no
\* interval was counted
CompareProgressPaced(c) ==
    /\ coord[c].pc = "compare"
    /\ IF progress = 0
         THEN /\ coord' = [coord EXCEPT ![c] =
                            [@ EXCEPT !.pc = "sleep",
                                      !.profMultiple = Pace(@, 0)]]
              /\ UNCHANGED progVars
         ELSE /\ progress' = 0
              /\ progresstime' = 0
              /\ experimentNum' = experimentNum + 1
              /\ UNCHANGED commits
              /\ coord' = [coord EXCEPT ![c] =
                            [@ EXCEPT !.pc = "record",
                                      !.diff = GoDiv(progresstime, progress),
                                      !.cnt = progress]]
    /\ UNCHANGED <<cpu, stopPc, ret, rt, task, out, env>>
    /\ UNCHANGED <<selVars, paceVars, mergeVars>>

\* lines 279-282: compareprogress(), under progressmu, and the test of diff
CompareProgress(c) ==
    /\ coord[c].pc = "compare"
    /\ IF progress = 0
         THEN /\ coord' = [coord EXCEPT ![c] =
                            [@ EXCEPT !.pc = "start", !.loc = 0, !.exp = 0,
                                      !.gen = 0]]
              /\ UNCHANGED progVars
         ELSE LET cnt == progress
                  prog == GoDiv(progresstime, cnt)
              IN /\ progress' = 0
                 /\ progresstime' = 0
                 /\ experimentNum' = experimentNum + 1
                 /\ UNCHANGED commits
                 /\ coord' = [coord EXCEPT ![c] =
                               IF prog = -1
                                 THEN [@ EXCEPT !.pc = "start", !.loc = 0, !.exp = 0,
                                                !.gen = 0]
                                 ELSE [@ EXCEPT !.pc = "record", !.diff = prog,
                                                !.cnt = cnt]]
    /\ UNCHANGED <<cpu, stopPc, ret, rt, task, out, env>>
    /\ UNCHANGED <<selVars, paceVars, mergeVars>>

\* the machine-readable line of a record (line 290), and the count of line 288;
\* gen, which is not printed, is the generation the trial ran in
Record(k, st) ==
    [pc |-> k.loc,
     speedup |-> DelayPerSample(k.exp) \div delayPerPercent,
     nsPerOp |-> k.diff,
     samples |-> st.samples,
     allsamples |-> st.allsamples,
     cnt |-> k.cnt,
     gen |-> k.gen]

\* lines 283-300: the record is written and the pacing rule applied
CoordRecord(c) ==
    /\ coord[c].pc = "record"
    /\ \E st \in SampleStats : out' = Append(out, Record(coord[c], st))
    /\ coord' = [coord EXCEPT ![c] =
                   [@ EXCEPT !.pc = "sleep",
                             !.profMultiple = Pace(@, coord[c].cnt)]]
    /\ UNCHANGED <<cpu, stopPc, ret, rt, progVars, task, env>>
    /\ UNCHANGED <<selVars, paceVars, mergeVars>>

\* line 301: the cool-down ends
CoordSleep(c) ==
    /\ coord[c].pc = "sleep"
    /\ coord' = [coord EXCEPT ![c] =
                   [@ EXCEPT !.pc = "start", !.loc = 0, !.exp = 0, !.diff = 0,
                             !.cnt = 0, !.gen = 0]]
    /\ UNCHANGED <<cpu, stopPc, ret, rt, progVars, task, out, env>>
    /\ UNCHANGED <<selVars, paceVars, mergeVars>>

\* StartProgress(), lines 348-351: the load of cpu.profiling
StartProgressLoad(t) ==
    /\ task[t].pc = "idle"
    /\ env.intervals > 0
    /\ env' = [env EXCEPT !.intervals = @ - 1]
    /\ task' = [task EXCEPT ![t] =
                  IF cpu.profiling = 0
                    THEN [@ EXCEPT !.pc = "holding", !.p = ZeroProgress]
                    ELSE [@ EXCEPT !.pc = "clock"]]
    /\ UNCHANGED <<cpu, stopPc, ret, rt, coord, progVars, out>>
    /\ UNCHANGED <<selVars, paceVars, mergeVars>>

\* StartProgress(), lines 353-354: time.Now() and
\* runtime_causalProfileGetDelay(). An instant, and the delay injected up to
\* it, is numbered by the generation it falls in, from 1; 0 is the zero Time
StartProgressClock(t) ==
    /\ task[t].pc = "clock"
    /\ task' = [task EXCEPT ![t] =
                  [@ EXCEPT !.pc = "gen",
                            !.p.startTime = experimentNum + 1,
                            !.p.startDelay = experimentNum + 1]]
    /\ UNCHANGED <<cpu, stopPc, ret, rt, coord, progVars, out, env>>
    /\ UNCHANGED <<selVars, paceVars, mergeVars>>

\* StartProgress(), line 355: the load of experimentNum
StartProgressGen(t) ==
    /\ task[t].pc = "gen"
    /\ task' = [task EXCEPT ![t] =
                  [@ EXCEPT !.pc = "holding", !.p.experimentNum = experimentNum]]
    /\ UNCHANGED <<cpu, stopPc, ret, rt, coord, progVars, out, env>>
    /\ UNCHANGED <<selVars, paceVars, mergeVars>>

\* Progress.Stop adding whatever generation the interval began in
ProgressStopUnfiltered(t) ==
    /\ task[t].pc = "holding"
    /\ IF task[t].p.startTime = 0
         THEN /\ task' = [task EXCEPT ![t] = [pc |-> "idle", p |-> ZeroProgress]]
              /\ ret' = "Progress.Stop: noop"
              /\ UNCHANGED progVars
         ELSE /\ \E net \in NetTimes : progresstime' = progresstime + net
              /\ progress' = progress + 1
              /\ commits' = Append(commits, experimentNum)
              /\ task' = [task EXCEPT ![t] = [pc |-> "idle", p |-> ZeroProgress]]
              /\ ret' = "Progress.Stop: added"
              /\ UNCHANGED experimentNum
    /\ UNCHANGED <<cpu, stopPc, rt, coord, out, env>>
    /\ UNCHANGED <<selVars, paceVars, mergeVars>>

\* p.Stop(), lines 359-373; the net time t is drawn where it is added
ProgressStop(t) ==
    /\ task[t].pc = "holding"
    /\ IF task[t].p.startTime = 0
         THEN /\ task' = [task EXCEPT ![t] = [pc |-> "idle", p |-> ZeroProgress]]
              /\ ret' = "Progress.Stop: noop"
              /\ UNCHANGED progVars
         ELSE IF experimentNum # task[t].p.experimentNum
           THEN /\ task' = [task EXCEPT ![t] = [pc |-> "idle", p |-> ZeroProgress]]
                /\ ret' = "Progress.Stop: stale"
                /\ UNCHANGED progVars
           ELSE /\ \E net \in NetTimes : progresstime' = progresstime + net
                /\ progress' = progress + 1
                /\ commits' = Append(commits, experimentNum)
                /\ task' = [task EXCEPT ![t] = [pc |-> "idle", p |-> ZeroProgress]]
                /\ ret' = "Progress.Stop: added"
                /\ UNCHANGED experimentNum
    /\ UNCHANGED <<cpu, stopPc, rt, coord, out, env>>
    /\ UNCHANGED <<selVars, paceVars, mergeVars>>

CoordNext(c) ==
    \/ CoordStopped(c)
    \/ CoordSelect(c)
    \/ CoordRetire(c)
    \/ ResetProgress(c)
    \/ CoordInstall(c)
    \/ WindowTimer(c)
    \/ CoordAbort(c)
    \/ CoordUninstall(c)
    \/ CompareProgress(c)
    \/ CoordRecord(c)
    \/ CoordSleep(c)

StopNext ==
    \/ StopProf
    \/ \E c \in Coords : StopSend(c)

Next ==
    \/ Start
    \/ Stop
    \/ StopNext
    \/ \E c \in Coords : CoordNext(c)
    \/ \E t \in Tasks : StartProgressLoad(t)
    \/ \E t \in Tasks : StartProgressClock(t)
    \/ \E t \in Tasks : StartProgressGen(t)
    \/ \E t \in Tasks : ProgressStop(t)

\* ----------------------------------------------------------- specifications
\* s, o and mergePc while no call of merge is modelled
MergeOff ==
    /\ s = [pc |-> 16, speedup |-> 0, merged |-> 1, nsPerOp |-> 100,
            delaysamples |-> 0, allsamples |-> 1000]
    /\ o = s
    /\ mergePc = "idle"

\* the merge variables while neither merge nor main is modelled
MergeIdle ==
    /\ MergeOff
    /\ AggIdle

\* the profiler's variables while no profiler is modelled
ProfOff ==
    /\ ProfIdle
    /\ rt = [sampling |-> FALSE, delay |-> 0, cpuprof |-> FALSE]
    /\ env = [candidates |-> 0, intervals |-> 0, starts |-> 0]

InitSel == SelInit /\ PaceInit /\ MergeIdle /\ ProfOff

SpecSel == InitSel /\ [][SelCall]_vars

SpecPace == InitSel /\ [][PaceStep]_vars

InitMerge == SelInit /\ PaceInit /\ MergeInit /\ ProfOff

InitAgg == SelInit /\ PaceInit /\ MergeOff /\ AggInit /\ ProfOff

SpecAgg == InitAgg /\ [][AggNext]_vars

SpecMerge == InitMerge /\ [][Merge]_vars

Init == SelInit /\ PaceInit /\ MergeIdle /\ ProfInit

Spec == Init /\ [][Next]_vars

\* every runnable goroutine is scheduled in the end and every timer fires; a
\* Stop call that holds the mutex goes on
FairSpec ==
    /\ Spec
    /\ WF_vars(StopNext)
    /\ \A c \in Coords : WF_vars(CoordNext(c))

\* ------------------------------------------------------- selectExperiment
\* the non-zero levels of a sequence of returned values, in order
NonZero(q) == SelectSeq(q, LAMBDA v : v > 0)

NoRepeat(q) == \A i, j \in 1..Len(q) : q[i] = q[j] => i = j

\* the delay percentiles (level * percentileResolution) of the non-zero levels
Percentiles(q) == {v * percentileResolution : v \in Range(NonZero(q))}

C2_NullEveryCycle ==
    ended # <<>> => 0 \in Range(ended)

\* the experiment has handed out all of its cycles
Exhausted ==
    /\ expinfo.hasNull
    /\ expinfo.remaining = <<>>
    /\ expinfo.trials = maxTrialsPerExperiment

\* C3: trials never exceeds maxTrialsPerExperiment; a call on an experiment
\* whose maxTrialsPerExperiment cycles are handed out returns -1; and once -1
\* was returned every later call returns -1 and leaves the experiment as it is
C3_StopIsPermanent ==
    [][/\ expinfo'.trials <= maxTrialsPerExperiment
       /\ Exhausted => lastRet' = <<-1>> /\ expinfo' = expinfo
       /\ lastRet = <<-1>> => lastRet' = <<-1>> /\ expinfo' = expinfo
       /\ lastRet' = <<-1>> => Exhausted]_selVars

\* a second stop sentinel in a row
C3_Witness ==
    /\ lastRet = <<-1>>
    /\ cycle = <<>>
    /\ Exhausted
\* ------------------------------------------------------------------- pacing
\* C9 as stated: after a pacing step on count cnt the multiplier is doubled
\* when cnt < 50, halved when cnt > 200, and unchanged otherwise
C9_PacingRule ==
    [][\A cnt \in 1..MaxCnt :
         lastCnt' = <<cnt>> =>
           /\ cnt < 50 => profMultiple' = 2 * profMultiple
           /\ cnt > 200 => profMultiple' = profMultiple \div 2
           /\ (cnt >= 50 /\ cnt <= 200) => profMultiple' = profMultiple]_paceVars

\* -------------------------------------------------------------------- merge
Abs(x) == IF x < 0 THEN -x ELSE x

\* q is the quotient total / n cut toward zero
IsMean(q, total, n) ==
    /\ Abs(q) * n <= Abs(total)
    /\ Abs(total) < (Abs(q) + 1) * n
    /\ (q > 0 => total > 0) /\ (q < 0 => total < 0)

\* C10: merge of two samples with equal (pc, speedup) sets s.nsPerOp to the
\* count-weighted mean of the two, s.merged to the sum of the merged counts,
\* s.delaysamples and s.allsamples to the sums, and leaves o as it is;
\* {100, merged 1} with {300, merged 3} gives {250, merged 4}
C10_MergeWeightedMean ==
    [][mergePc' = "done" =>
         /\ IsMean(s'.nsPerOp, (s.nsPerOp * s.merged) + (o.nsPerOp * o.merged),
                   s.merged + o.merged)
         /\ s'.merged = s.merged + o.merged
         /\ s'.delaysamples = s.delaysamples + o.delaysamples
         /\ s'.allsamples = s.allsamples + o.allsamples
         /\ s'.pc = s.pc /\ s'.speedup = s.speedup
         /\ o' = o
         /\ (s.nsPerOp = 100 /\ s.merged = 1 /\ o.nsPerOp = 300 /\ o.merged = 3)
              => (s'.nsPerOp = 250 /\ s'.merged = 4)]_mergeVars

\* {100, merged 1} was merged with {300, merged 3}
C10_Witness ==
    /\ mergePc = "done"
    /\ s.nsPerOp = 250 /\ s.merged = 4
    /\ o.nsPerOp = 300 /\ o.merged = 3

\* ----------------------------------------------------------------- profiler
\* C4: a Progress.Stop whose Progress is the zero Progress, or holds a
\* generation other than experimentNum, leaves progress and progresstime as
\* they are
C4_StaleIntervalAddsNothing ==
    [][\A t \in Tasks :
         (/\ task[t].pc = "holding"
          /\ task'[t].pc = "idle"
          /\ \/ task[t].p.startTime = 0
             \/ task[t].p.experimentNum # experimentNum)
         => (progress' = progress /\ progresstime' = progresstime)]_profVars

\* an interval that began in an earlier generation was stopped
C4_Witness ==
    /\ ret = "Progress.Stop: stale"
    /\ experimentNum > 0

\* C5: a Stop call that holds the mutex returns in the end
C5_StopReturns ==
    (stopPc # "idle") ~> (stopPc = "idle")

\* Stop returned after the second Start
C5_Witness ==
    /\ ret = "Stop: stopped"
    /\ stopPc = "idle"
    /\ env.starts = 0
    /\ env.candidates = MaxCandidates - 1

\* C6 as stated: no record is written once Stop has cleared cpu.profiling
C6_NoRecordAfterStop ==
    [][Len(out') > Len(out) => cpu.profiling = 1]_profVars

Spawned(c) == coord[c].pc = "none" /\ coord'[c].pc # "none"

\* C7: a Start that returns an error leaves cpu.profiling, the runtime and the
\* goroutines as they are; profiling begins, the sampling is switched on or a
\* goroutine is spawned only by a Start from the inactive state, which sets
\* cpu.profiling and spawns one goroutine
C7_StartRejectedWhenActive ==
    [][/\ (ret' # ret /\ ret' \in {"Start: causal profiling already in use",
                                   "Start: cpu profiling already in use"})
          => /\ cpu.profiling # 0 \/ rt.cpuprof
             /\ cpu'.profiling = cpu.profiling
             /\ UNCHANGED <<rt, coord, progVars, task, out, stopPc>>
       /\ (\/ \E c \in Coords : Spawned(c)
           \/ cpu.profiling = 0 /\ cpu'.profiling = 1
           \/ ~rt.sampling /\ rt'.sampling)
          => /\ cpu.profiling = 0 /\ ~rt.cpuprof
             /\ cpu'.profiling = 1
             /\ rt'.sampling
             /\ Cardinality({c \in Coords : Spawned(c)}) = 1
             /\ ret' = "Start: nil"]_profVars

\* Start was refused while causal profiling was on
C7_Witness ==
    /\ ret = "Start: causal profiling already in use"
    /\ cpu.profiling = 1

\* C8: a Stop call made while cpu.profiling is 0 returns at once and changes
\* nothing: it does not stop the sampling, it does not go on to the send, and
\* cpu.profiling, the goroutines and the progress state stay as they are
C8_StopWhenInactive ==
    [][/\ (cpu.profiling = 0 /\ stopPc = "idle")
          => /\ stopPc' = "idle"
             /\ rt.sampling => rt'.sampling
       /\ (ret' # ret /\ ret' = "Stop: not profiling")
          => /\ cpu.profiling = 0
             /\ UNCHANGED <<cpu, stopPc, rt, coord, progVars, task, out, env>>]_profVars

\* Stop was called after an earlier Stop had stopped the profiling
C8_Witness ==
    /\ ret = "Stop: not profiling"
    /\ cpu.done = "chan"
    /\ ~rt.cpuprof
    /\ env.starts < MaxStarts

\* C13: a goroutine goes on to write a record only from a compareprogress that
\* found progress >= 1, and then its cnt is that progress and its diff the
\* quotient progresstime / progress cut toward zero, both read in that one
\* step; a compareprogress that finds progress = 0 writes nothing and goes back
\* to the head of the loop; every record written carries that cnt and diff,
\* so every record has cnt >= 1
C13_RecordsHaveIntervals ==
    [][/\ \A c \in Coords :
            (coord[c].pc # "record" /\ coord'[c].pc = "record")
            => /\ coord[c].pc = "compare"
               /\ progress >= 1
               /\ coord'[c].cnt = progress
               /\ IsMean(coord'[c].diff, progresstime, progress)
       /\ \A c \in Coords :
            (coord[c].pc = "compare" /\ progress = 0 /\ coord'[c] # coord[c])
            => /\ coord'[c].pc = "start"
               /\ out' = out
       /\ out' # out
            => \E c \in Coords :
                 /\ coord[c].pc = "record"
                 /\ Len(out') = Len(out) + 1
                 /\ SubSeq(out', 1, Len(out)) = out
                 /\ out'[Len(out')].cnt = coord[c].cnt
                 /\ out'[Len(out')].nsPerOp = coord[c].diff
       /\ \A i \in 1..Len(out') : out'[i].cnt >= 1]_profVars

\* a record of two intervals whose net times, 4 and -1, give 3 / 2 = 1
C13_Witness ==
    \E i \in 1..Len(out) : out[i].cnt = 2 /\ out[i].nsPerOp = 1

\* the additions to progress made while generation g was the current one
CommitsIn(g) == Cardinality({k \in 1..Len(commits) : commits[k] = g})

\* C14: the cnt of a record is the number of additions Progress.Stop made
\* between the resetProgress that opened the record's generation and the
\* compareprogress that read it, and no two records are of one generation, so
\* no addition is counted in two records
C14_EveryIntervalCountedOnce ==
    /\ \A i \in 1..Len(out) : out[i].cnt = CommitsIn(out[i].gen)
    /\ \A i, j \in 1..Len(out) : out[i].gen = out[j].gen => i = j
    /\ \A c \in Coords :
         coord[c].pc \in {"record", "sleep"} => coord[c].cnt = CommitsIn(coord[c].gen)
    /\ Len(commits) >= Len(out)

\* a record of one interval, and a later interval added in the generation
\* compareprogress opened, which no record counts
C14_Witness ==
    \E i \in 1..Len(out) :
        /\ out[i].cnt = 1
        /\ CommitsIn(out[i].gen + 1) = 1

\* C15 as stated: a window that has run to its timer with intervals to record
\* still has the trial's delay installed, and the installed delay is 0 whenever
\* no goroutine is between its install of line 271 and the install of 0 that
\* ends its window
C15_InstalledDelay ==
    /\ \A c \in Coords :
         (coord[c].pc = "uninstall" /\ progress > 0 /\ progresstime > 0)
         => rt.delay = DelayPerSample(coord[c].exp)
    /\ (\A c \in Coords : coord[c].pc \notin {"window", "uninstall", "abort"})
         => rt.delay = 0

\* C16 as stated: the window multiplier is at least 1 after any sequence of
\* pacing steps
C16_MultipleAtLeastOne ==
    profMultiple >= 1

\* C17: a compareprogress that finds progress = 0 sends the goroutine back to
\* the head of its loop with profMultiple as it was and nothing written; a
\* goroutine's profMultiple changes, and its cool-down begins, only in the
\* step that writes a record
C17_DiscardLeavesPacing ==
    [][/\ \A c \in Coords :
            (coord[c].pc = "compare" /\ progress = 0 /\ coord'[c] # coord[c])
            => /\ coord'[c].pc = "start"
               /\ coord'[c].profMultiple = coord[c].profMultiple
               /\ out' = out
       /\ \A c \in Coords :
            (/\ coord[c].pc # "none"
             /\ coord'[c].pc # "none"
             /\ coord'[c].profMultiple # coord[c].profMultiple)
            => /\ coord[c].pc = "record"
               /\ Len(out') = Len(out) + 1
       /\ \A c \in Coords :
            (coord[c].pc # "sleep" /\ coord'[c].pc = "sleep")
            => /\ coord[c].pc = "record"
               /\ Len(out') = Len(out) + 1]_profVars

\* the first trial was recorded with one interval, which doubled the
\* multiplier, and the second, with none, was discarded
C17_Witness ==
    /\ cpu.profiling = 1
    /\ env.starts = 1
    /\ experimentNum = 3
    /\ Len(out) = 1
    /\ \E c \in Coords :
         /\ coord[c].pc = "start"
         /\ coord[c].profMultiple = 2 * initialProfMultiple

\* C18 as stated: an interval that is added to progress with the window at
\* its compareprogress, and so is counted in the trial's record, holds a start
\* time and a start delay read in the generation its Progress names, that is
\* after the resetProgress that opened that generation
C18_TokenReadInItsGeneration ==
    [][\A t \in Tasks :
         (/\ task[t].pc = "holding"
          /\ task'[t].pc = "idle"
          /\ progress' = progress + 1
          /\ progresstime' > 0
          /\ \E c \in Coords : coord[c].pc = "compare")
         => /\ task[t].p.startTime = task[t].p.experimentNum + 1
            /\ task[t].p.startDelay = task[t].p.experimentNum + 1]_profVars

\* --------------------------------------------------------------- aggregator
\* the records (0x10,0,100,0,1000), (0x10,0,100,0,1000), (0x10,30,70,300,1000)
Scenario ==
    <<RecordLine(16, 0, 100, 0, 1000), RecordLine(16, 0, 100, 0, 1000),
      RecordLine(16, 30, 70, 300, 1000)>>

\* C11 as stated: on the scenario's records main reports callsite 0x10 with
\* the baseline 100 ns merged from two records and one trial line at 30%
\* with a change of -30% and a contribution of 9%, and not "not enough data"
C11_ScenarioReported ==
    (file = Scenario /\ aggPc = "done")
    => /\ Len(index[16]) = 2
       /\ index[16][1].speedup = 0 /\ index[16][1].merged = 2
       /\ Len(output) = 4
       /\ output[1].kind = "header" /\ output[1].pc = 16
       /\ output[2].kind = "baseline" /\ output[2].nsPerOp = 100
       /\ output[3].kind = "trial" /\ output[3].speedup = 30
       /\ output[3].nsPerOp = 70
       /\ output[3].percent.num = (-30) * output[3].percent.den
       /\ output[3].percentsamples.num = 9 * output[3].percentsamples.den
       /\ output[4].kind = "blank"

\* a line that is not empty, does not start with '#', and has a field count
\* other than 5, an address that is no unsigned numeral or another field that
\* is no decimal numeral
Malformed(l) ==
    /\ l.kind = "text"
    /\ \/ Len(l.fields) # 5
       \/ l.fields[1].neg \/ l.fields[1].form = "word"
       \/ \E k \in 2..5 : l.fields[k].form # "dec"

\* C12: once readProfFile has returned, a file with a malformed line has given
\* an error and no samples, main has died and prints nothing, wherever the
\* line stands; a file without one that opens gives no read error and one
\* sample for each line that is neither empty nor a comment
C12_MalformedLineAborts ==
    aggPc # "read"
    => /\ (\E k \in 1..Len(file) : Malformed(file[k]))
          => /\ aggPc = "fatal"
             /\ err \in {"corrupt", "syntax", "open"}
             /\ samples = <<>>
             /\ index = <<>>
             /\ output = <<>>
       /\ ((\A k \in 1..Len(file) : ~Malformed(file[k])) /\ err # "open")
          => /\ err \in {"nil", "symbols"}
             /\ Len(samples) = Cardinality({k \in 1..Len(file) : file[k].kind = "text"})

\* readProfFile failed on a malformed line that stands between two well-formed
\* records
C12_Witness ==
    /\ aggPc = "fatal"
    /\ err \in {"corrupt", "syntax"}
    /\ \E i, j, k \in 1..Len(file) :
         /\ i < j /\ j < k
         /\ file[i].kind = "text" /\ ~Malformed(file[i])
         /\ Malformed(file[j])
         /\ file[k].kind = "text" /\ ~Malformed(file[k])

\* the records of the file with the callsite and the delay percentage of e
GroupOf(e) == SelectSeq(samples, LAMBDA x : x.pc = e.pc /\ x.speedup = e.speedup)

RECURSIVE SumOf(_, _)
SumOf(q, field) ==
    IF q = <<>> THEN 0 ELSE Head(q)[field] + SumOf(Tail(q), field)

\* C19 as stated: after the merge step each entry of a callsite holds, whatever
\* order its records came in, the mean of the nsPerOp of all records of its
\* (callsite, delay percentage) group, sum / count, the count as merged, and
\* the sums of delaysamples and allsamples
C19_MergedIsGroupMean ==
    aggPc \in {"symbols", "report", "done"}
    => \A pc \in DOMAIN index : \A k \in 1..Len(index[pc]) :
         LET e == index[pc][k]
             g == GroupOf(e)
         IN /\ e.merged = Len(g)
            /\ e.delaysamples = SumOf(g, "delaysamples")
            /\ e.allsamples = SumOf(g, "allsamples")
            /\ IsMean(e.nsPerOp, SumOf(g, "nsPerOp"), Len(g))

\* the header line of the block that line k of the output stands in
HeaderOf(k) ==
    CHOOSE h \in 1..k :
        /\ output[h].kind = "header"
        /\ \A j \in (h + 1)..k : output[j].kind # "header"

\* C20: after the merge step the entries of each callsite are strictly
\* ascending in delay percentage and their merged counts add up to the number
\* of records of the callsite; in the report each header is followed by the
\* callsite's entry of 0%, each trial line is of a higher percentage than the
\* line before it and gives the change against the baseline printed under its
\* own header, and "not enough data" is printed, alone, exactly when no
\* callsite is reported
C20_ReportInvariants ==
    /\ aggPc \in {"symbols", "report", "done"}
       => \A pc \in DOMAIN index :
            /\ \A k \in 1..(Len(index[pc]) - 1) :
                 index[pc][k].speedup < index[pc][k + 1].speedup
            /\ SumOf(index[pc], "merged")
                 = Cardinality({k \in 1..Len(samples) : samples[k].pc = pc})
    /\ aggPc = "done"
       => /\ (\E k \in 1..Len(output) : output[k].kind = "nodata")
             <=> ~(\E k \in 1..Len(output) : output[k].kind = "header")
          /\ (\E k \in 1..Len(output) : output[k].kind = "nodata")
             => Len(output) = 1
          /\ \A k \in 1..Len(output) :
               /\ output[k].kind = "header"
                  => /\ output[k].pc \in DOMAIN index
                     /\ k < Len(output)
                     /\ output[k + 1].kind = "baseline"
                     /\ output[k + 1].speedup = 0
                     /\ output[k + 1].nsPerOp = index[output[k].pc][1].nsPerOp
               /\ output[k].kind = "baseline"
                  => k > 1 /\ output[k - 1].kind = "header"
               /\ output[k].kind = "trial"
                  => LET base == output[HeaderOf(k) + 1]
                     IN /\ output[k - 1].kind \in {"baseline", "trial"}
                        /\ output[k - 1].speedup < output[k].speedup
                        /\ output[k].percent.den = base.nsPerOp
                        /\ output[k].percent.num
                             = (output[k].nsPerOp - base.nsPerOp) * 100

\* callsite 0x10 is reported with its baseline and four trials, and callsite
\* 0x20, which has a baseline only, is not
C20_Witness ==
    /\ aggPc = "done"
    /\ DOMAIN index = {16, 32}
    /\ Len(output) = 7
    /\ output[1].kind = "header" /\ output[1].pc = 16
    /\ output[6].kind = "trial" /\ output[6].speedup = 40
====
